---- MODULE Spec2Model ----
(***************************************************************************)
(* intercept-fs (src/src/lib.rs): an LD_PRELOAD layer whose shims forward  *)
(* open, close, mkdir, symlink, stat, lstat and fstat to the original      *)
(* libc implementation and append a record of the call to a per-thread log *)
(* file under /tmp/intercepts.                                             *)
(*                                                                         *)
(* Paths are sequences of one-character strings, so that the scope check   *)
(* of log_op is computed on the characters exactly as the code does.       *)
(* The operating system (the "original" functions the shims forward to) is *)
(* modelled by a descriptor table with lowest-free allocation and by       *)
(* nondeterministic success or failure of every forwarded call.            *)
(*                                                                         *)
(* Not modelled: the flags/mode/target/stat-buffer details that the shims  *)
(* only copy into the text of a record.  The timestamp prefix that log     *)
(* puts before a record is modelled apart from the records, in the stamps  *)
(* of the clock specification.                                             *)
(***************************************************************************)
EXTENDS Integers, Sequences, FiniteSets, TLC

\* ------------------------------------------------------------------ bounds

\* A host that makes one call at a time may hold the descriptors 0..MaxFd:
\* its descriptor limit is MaxFd + 1.
MaxFd == 2

\* A host whose threads open concurrently may hold MaxExtra descriptors more.
MaxExtra == 2

\* Total number of records the threads may append: a call that would append
\* one more is not made.
MaxLog == 1

\* Total number of records in the runs that show the order of records.
MaxOrder == 2

\* Total number of lines written in the runs that follow the clock.
MaxStamps == 3

\* Number of calls the threads make in all in the runs that follow the lock.
MaxCalls == 2

\* Number of calls the threads make in all in the runs that follow a close
\* racing with an open.
MaxRace == 3

Fds == 0..MaxFd

\* The descriptors of the host with the largest descriptor limit.
AllFds == 0..(MaxFd + MaxExtra)

\* Thread identities (pthread_self values) of the host's threads.
Threads == {"T1", "T2"}

\* ------------------------------------------------------------- OS constants

\* errno values of the platform (libc), as printed by raw_os_error.
Errno == [ENOENT |-> 2, EBADF |-> 9, EACCES |-> 13, EEXIST |-> 17,
          EMFILE |-> 24, ENOSPC |-> 28]

\* ------------------------------------------------------------------- paths

\* The literal "/tmp" of log_op.
Root == <<"/", "t", "m", "p">>

\* The literal "/intercepts" of log_op.
AuditSuffix == <<"/", "i", "n", "t", "e", "r", "c", "e", "p", "t", "s">>

\* The literal "/tmp/intercepts" of the LOG_FILE initialiser.
AuditDir == Root \o AuditSuffix

\* "/tmp/intercepts/<pid>.<tid>.log": the destination of thread t.
LogPath(t) == AuditDir \o <<"/", t, ".", "l", "o", "g">>

\* Paths the host passes to the shims.
PathIn == Root \o <<"/", "a">>              \* /tmp/a
PathSibling == Root \o <<"x">>              \* /tmpx
PathAuditLike == AuditDir \o <<"x">>        \* /tmp/interceptsx
PathAudit == AuditDir \o <<"/", "l">>       \* /tmp/intercepts/l
PathOut == <<"/", "e", "t", "c">>           \* /etc
PathIn2 == Root \o <<"/", "b">>             \* /tmp/b

\* What descriptor 0 is open on when the process starts.
Stdin == <<"/", "d", "e", "v">>

Paths == {PathIn, PathSibling, PathAuditLike, PathAudit, PathOut}

\* str::starts_with
starts_with(s, prefix) ==
    /\ Len(s) >= Len(prefix)
    /\ SubSeq(s, 1, Len(prefix)) = prefix

\* path[4..]: the path from byte offset 4 on.
from4(path) == SubSeq(path, 5, Len(path))

\* A mutant of InScope: the audit directory is not excluded.
InScopeNoExclusion(path) == starts_with(path, Root)

\* The scope check of log_op: the negation of its early-return condition.
InScope(path) ==
    ~(~starts_with(path, Root) \/ starts_with(from4(path), AuditSuffix))

\* ------------------------------------------------------------------- state

VARIABLES
    registry,   \* RELEVANT_FILE_DESCRIPTORS: the set of marked descriptors
    fdtab,      \* the OS's descriptor table: the path each descriptor was
                \* opened on, <<>> for a descriptor that is not open
    logFile,    \* LOG_FILE of each thread: {} before its lazy initialiser
                \* has run, then {the descriptor of the file}
    dirExists,  \* whether the directory /tmp/intercepts exists
    errno,      \* the error-state code of each thread
    logs,       \* the contents of each thread's destination file
    aborted,    \* the process has been killed by a panic of the layer
    last,       \* of the last call that returned: the value of the original, and
                \* the value handed to the host
    nofile,     \* the descriptor limit of the process (RLIMIT_NOFILE)
    calls,      \* the call each thread is in, when the steps of concurrent
                \* calls are followed one by one
    now,        \* the monotonic clock (Instant::now), in nanoseconds
    begunAt,    \* BEGUN_AT of each thread: {} before its lazy initialiser has
                \* run, then {the instant it read}
    stamps,     \* per thread, for each line it wrote: the instant of the
                \* write, the elapsed time computed and the prefix printed
    lock        \* the RwLock of RELEVANT_FILE_DESCRIPTORS: its holders

\* The clock and the lock, which the calls taken as single steps leave alone.
aside == <<now, begunAt, stamps, lock>>

vars ==
    <<registry, fdtab, logFile, dirExists, errno, logs, aborted, last, nofile,
      calls, now, begunAt, stamps, lock>>

\* The state the layer and the OS act on, as one value.
World ==
    [registry |-> registry, fdtab |-> fdtab, logFile |-> logFile,
     dirExists |-> dirExists, errno |-> errno, logs |-> logs,
     aborted |-> aborted, nofile |-> nofile]

SetWorld(w) ==
    /\ registry' = w.registry
    /\ fdtab' = w.fdtab
    /\ logFile' = w.logFile
    /\ dirExists' = w.dirExists
    /\ errno' = w.errno
    /\ logs' = w.logs
    /\ aborted' = w.aborted
    /\ nofile' = w.nofile

Min(S) == CHOOSE x \in S : \A y \in S : x <= y

\* The descriptors that are open.
OpenFds(w) == {fd \in AllFds : w.fdtab[fd] # <<>>}

\* The descriptors the process may still be given.
FreeFds(w) == {fd \in AllFds : fd < w.nofile /\ w.fdtab[fd] = <<>>}

\* The descriptors the layer holds for its log files.
LogFds(w) == UNION {w.logFile[t] : t \in Threads}

TotalLog(l) == Len(l["T1"]) + Len(l["T2"])

\* What can go wrong in the environment while a record is written.
Envs == {"ok", "mkdir_fails", "create_fails", "write_fails"}

\* --------------------------------------------------- the original functions

\* The original open: the lowest free descriptor, or -1 with errno set.
orig_open(w, t, path, ok) ==
    LET free == FreeFds(w) IN
    IF ok /\ free # {}
    THEN [w |-> [w EXCEPT !.fdtab[Min(free)] = path], ret |-> Min(free)]
    ELSE [w |-> [w EXCEPT !.errno[t] =
                    IF ok THEN Errno.EMFILE ELSE Errno.ENOENT],
          ret |-> -1]

\* The original close.
orig_close(w, t, fd) ==
    IF fd \in OpenFds(w)
    THEN [w |-> [w EXCEPT !.fdtab[fd] = <<>>], ret |-> 0]
    ELSE [w |-> [w EXCEPT !.errno[t] = Errno.EBADF], ret |-> -1]

\* The original mkdir, symlink, stat and lstat on a path of the host.
orig_path(w, t, ok) ==
    IF ok
    THEN [w |-> w, ret |-> 0]
    ELSE [w |-> [w EXCEPT !.errno[t] = Errno.ENOENT], ret |-> -1]

\* The original fstat.
orig_fstat(w, t, fd) ==
    IF fd \in OpenFds(w)
    THEN [w |-> w, ret |-> 0]
    ELSE [w |-> [w EXCEPT !.errno[t] = Errno.EBADF], ret |-> -1]

\* The original mkdir on /tmp/intercepts.
orig_mkdir_audit(w, t, env) ==
    IF w.dirExists
    THEN [w |-> [w EXCEPT !.errno[t] = Errno.EEXIST], ret |-> -1]
    ELSE IF env = "mkdir_fails"
    THEN [w |-> [w EXCEPT !.errno[t] = Errno.EACCES], ret |-> -1]
    ELSE [w |-> [w EXCEPT !.dirExists = TRUE], ret |-> 0]

\* ------------------------------------------------------------ the audit sink

\* The condition under which open marks the descriptor it returns.
open_marks(logged, ret) == logged /\ ret > 0

\* A panic inside an extern "C" shim: the process is killed.
panic(w) == [w EXCEPT !.aborted = TRUE]

\* The code block of the mkdir or open shim when the shim is entered from the
\* LOG_FILE initialiser: log_op on the layer's own path.  Were the path in
\* scope, log would re-enter the initialiser that is still running, without
\* end, until the stack is exhausted.
nested_log_op(w, path) == IF InScope(path) THEN panic(w) ELSE w

\* The code block of the open shim when the shim is entered from the LOG_FILE
\* initialiser: log_op on the layer's own path answers false, which is the
\* left operand of the condition under which open marks.
nested_open_code(w, path, ret) ==
    LET w1 == nested_log_op(w, path) IN
    IF w1.aborted THEN w1
    ELSE IF open_marks(FALSE, ret)
    THEN [w1 EXCEPT !.registry = @ \cup {ret}]
    ELSE w1

\* The lazy initialiser of LOG_FILE.
LOG_FILE_init(w, t, env) ==
    LET m == orig_mkdir_audit(w, t, env)
        w1 == nested_log_op(m.w, AuditDir)
    IN  IF w1.aborted THEN w1
        ELSE IF m.ret # 0 /\ w1.errno[t] # Errno.EEXIST THEN panic(w1)
        ELSE LET o == orig_open(w1, t, LogPath(t), env # "create_fails")
                 w2 == nested_open_code(o.w, LogPath(t), o.ret)
             IN  IF w2.aborted THEN w2
                 ELSE IF o.ret < 0 THEN panic(w2)
                 ELSE [w2 EXCEPT !.logFile[t] = {o.ret}, !.logs[t] = <<>>]

\* A mutant of log: a record that cannot be written is dropped and the call
\* goes on.
logDropsUnwritten(w, t, rec, env) ==
    LET w1 == IF w.logFile[t] = {} THEN LOG_FILE_init(w, t, env) ELSE w
    IN  IF w1.aborted THEN w1
        ELSE IF env = "write_fails"
        THEN [w1 EXCEPT !.errno[t] = Errno.ENOSPC]
        ELSE [w1 EXCEPT !.logs[t] = Append(@, rec)]

\* A mutant of log: the record is put in front of the stream.
logPrepend(w, t, rec, env) ==
    LET w1 == IF w.logFile[t] = {} THEN LOG_FILE_init(w, t, env) ELSE w
    IN  IF w1.aborted THEN w1
        ELSE [w1 EXCEPT !.logs[t] = <<rec>> \o @]

\* log: the record is appended to the calling thread's destination.
log(w, t, rec, env) ==
    LET w1 == IF w.logFile[t] = {} THEN LOG_FILE_init(w, t, env) ELSE w
    IN  IF w1.aborted THEN w1
        ELSE IF env = "write_fails"
        THEN panic([w1 EXCEPT !.errno[t] = Errno.ENOSPC])
        ELSE [w1 EXCEPT !.logs[t] = Append(@, rec)]

\* The record of a path-keyed call.
PathRec(op, path, ret, e) ==
    [op |-> op, path |-> path, fd |-> -1, ret |-> ret,
     errnoClause |-> TRUE, errno |-> e]

\* The record of a descriptor-keyed call: no errno clause.
FdRec(op, fd, ret) ==
    [op |-> op, path |-> <<>>, fd |-> fd, ret |-> ret,
     errnoClause |-> FALSE, errno |-> 0]

\* A mutant of log_op: the error state is read once the sink is there, after
\* whatever its creation did to it.
log_op_errno_late(w, t, op, path, ret, env) ==
    IF ~InScope(path)
    THEN [w |-> w, logged |-> FALSE]
    ELSE LET w1 == IF w.logFile[t] = {} THEN LOG_FILE_init(w, t, env) ELSE w
         IN  [w |-> IF w1.aborted THEN w1
                    ELSE log(w1, t, PathRec(op, path, ret, w1.errno[t]), env),
              logged |-> TRUE]

\* log_op: scope check, then errno is read, then the record is written.
log_op(w, t, op, path, ret, env) ==
    IF ~InScope(path)
    THEN [w |-> w, logged |-> FALSE]
    ELSE [w |-> log(w, t, PathRec(op, path, ret, w.errno[t]), env),
          logged |-> TRUE]

\* ---------------------------------------------------------------- the shims

\* A mutant of registry_remove_key: the descriptor the caller passed.
registry_remove_fd(fd, ret) == fd

\* The value close hands to HashSet::remove: `&ret`.
registry_remove_key(fd, ret) == ret

\* A mutant of close_records: close records whenever the original succeeded.
close_records_always(reg, key) == TRUE

\* HashSet::remove's answer, on which close records: the key was present.
close_records(reg, key) == key \in reg

\* A mutant of fstat_records: fstat records every descriptor.
fstat_records_always(reg, fd) == TRUE

\* The condition under which fstat records: the descriptor is marked.
fstat_records(reg, fd) == fd \in reg

\* The code block of open.
open_code(w, t, path, ret, env) ==
    LET lo == log_op(w, t, "open", path, ret, env) IN
    IF lo.w.aborted THEN lo.w
    ELSE IF open_marks(lo.logged, ret)
    THEN [lo.w EXCEPT !.registry = @ \cup {ret}]
    ELSE lo.w

\* The code block of close.
close_code(w, t, fd, ret, env) ==
    IF ret = 0
    THEN LET key == registry_remove_key(fd, ret)
             w1 == [w EXCEPT !.registry = @ \ {key}]
         IN  IF close_records(w.registry, key)
             THEN log(w1, t, FdRec("close", fd, 0), env)
             ELSE w1
    ELSE w

\* The code block of mkdir, symlink and the stat and lstat families.
path_code(w, t, op, path, ret, env) == log_op(w, t, op, path, ret, env).w

\* The code block of the fstat family.
fstat_code(w, t, fd, ret, env) ==
    IF fstat_records(w.registry, fd)
    THEN log(w, t, FdRec("fstat", fd, ret), env)
    ELSE w

\* A mutant of shim_return: the shim answers success whatever happened.
shim_return_zero(ret) == 0

\* What a shim hands back to the host: `$ret_n`.
shim_return(ret) == ret

\* The operation name each intercepted function records.  Functions that run
\* the same code block and record the same name are one operation here:
\* stat is __xstat and stat, stat64 is __xstat64 and stat64, lstat is __lxstat
\* and lstat, lstat64 is __lxstat64 and lstat64, and fstat is __fxstat, fstat,
\* __fxstat64 and fstat64.
StatOps == {"stat", "stat64"}
LstatOps == {"lstat", "lstat64"}

\* A shim runs to its end: the new state and, if the call returned, the value
\* the original returned (orig) beside the value handed back to the host (ret).
Finish(op, ret, w) ==
    /\ SetWorld(w)
    /\ last' = IF w.aborted
               THEN last
               ELSE [orig |-> ret, ret |-> shim_return(ret)]
    /\ UNCHANGED <<calls, aside>>

\* The host makes calls until the process is killed.
Running == ~aborted

\* The faults the environment may inject into a call: none into a call that
\* writes no record.
EnvsOf(records) == IF records THEN Envs ELSE {"ok"}

\* A host that has used up its descriptor table is told so by a failing open
\* (ok = FALSE); only the layer's own open of a log file meets a full table.
Open(t, path, ok) ==
    /\ Running
    /\ ok => FreeFds(World) # {}
    /\ \E env \in EnvsOf(InScope(path)) :
          LET o == orig_open(World, t, path, ok) IN
          Finish("open", o.ret, open_code(o.w, t, path, o.ret, env))

\* The host closes the descriptors it may hold, never the layer's own.
Close(t, fd) ==
    /\ Running
    /\ fd \notin LogFds(World)
    /\ LET o == orig_close(World, t, fd) IN
       \E env \in EnvsOf(o.ret = 0) :
          Finish("close", o.ret, close_code(o.w, t, fd, o.ret, env))

Mkdir(t, path, ok) ==
    /\ Running
    /\ \E env \in EnvsOf(InScope(path)) :
          LET o == orig_path(World, t, ok) IN
          Finish("mkdir", o.ret, path_code(o.w, t, "mkdir", path, o.ret, env))

Symlink(t, target, linkpath, ok) ==
    /\ Running
    /\ \E env \in EnvsOf(InScope(linkpath)) :
          LET o == orig_path(World, t, ok) IN
          Finish("symlink", o.ret,
                 path_code(o.w, t, "symlink", linkpath, o.ret, env))

Stat(t, op, path, ok) ==
    /\ Running
    /\ \E env \in EnvsOf(InScope(path)) :
          LET o == orig_path(World, t, ok) IN
          Finish(op, o.ret, path_code(o.w, t, op, path, o.ret, env))

Lstat(t, op, path, ok) ==
    /\ Running
    /\ \E env \in EnvsOf(InScope(path)) :
          LET o == orig_path(World, t, ok) IN
          Finish(op, o.ret, path_code(o.w, t, op, path, o.ret, env))

Fstat(t, fd) ==
    /\ Running
    /\ fd \notin LogFds(World)
    /\ \E env \in EnvsOf(fd \in registry) :
          LET o == orig_fstat(World, t, fd) IN
          Finish("fstat", o.ret, fstat_code(o.w, t, fd, o.ret, env))


\* The lock held by nobody.
Unlocked == [writer |-> {}, readers |-> {}]

\* A thread that is in no call.
Idle ==
    [pc |-> "idle", op |-> "", path |-> <<>>, fd |-> -1, ret |-> 0,
     logged |-> FALSE, n |-> 0]

\* The layer when the process starts: nothing marked, no log file; the
\* directory /tmp/intercepts may be left over from an earlier run.
InitLayer ==
    /\ registry = {}
    /\ logFile = [t \in Threads |-> {}]
    /\ dirExists \in BOOLEAN
    /\ errno = [t \in Threads |-> 0]
    /\ logs = [t \in Threads |-> <<>>]
    /\ aborted = FALSE
    /\ last = [orig |-> 0, ret |-> 0]
    /\ calls = [t \in Threads |-> Idle]
    /\ now = 0
    /\ begunAt = [t \in Threads |-> {}]
    /\ stamps = [t \in Threads |-> <<>>]
    /\ lock = Unlocked

\* The process starts with standard input open.
Init ==
    /\ InitLayer
    /\ fdtab = [fd \in AllFds |-> IF fd = 0 THEN Stdin ELSE <<>>]
    /\ nofile = MaxFd + 1

\* The host stops making calls that would take the logs over n records.
LogsWithin(n) == TotalLog(logs') <= n

\* One path that the layer records and one that it does not.
FdPaths == {PathIn, PathOut}

\* The thread of a single-threaded host; the other thread never calls.
MainThread == "T1"

\* A single-threaded host that makes every intercepted call.
Next ==
    \/ \E path \in FdPaths, ok \in BOOLEAN :
          Open(MainThread, path, ok) /\ LogsWithin(MaxLog)
    \/ \E fd \in Fds : Close(MainThread, fd) /\ LogsWithin(MaxLog)
    \/ \E path \in FdPaths, ok \in BOOLEAN :
          Mkdir(MainThread, path, ok) /\ LogsWithin(MaxLog)
    \/ \E target \in FdPaths, linkpath \in FdPaths, ok \in BOOLEAN :
          Symlink(MainThread, target, linkpath, ok) /\ LogsWithin(MaxLog)
    \/ \E op \in StatOps, path \in FdPaths, ok \in BOOLEAN :
          Stat(MainThread, op, path, ok) /\ LogsWithin(MaxLog)
    \/ \E op \in LstatOps, path \in FdPaths, ok \in BOOLEAN :
          Lstat(MainThread, op, path, ok) /\ LogsWithin(MaxLog)
    \/ \E fd \in Fds : Fstat(MainThread, fd) /\ LogsWithin(MaxLog)

Spec == Init /\ [][Next]_vars

\* A host whose threads open, close and fstat.
NextFd ==
    \/ \E t \in Threads, path \in FdPaths, ok \in BOOLEAN :
          Open(t, path, ok) /\ LogsWithin(MaxLog)
    \/ \E t \in Threads, fd \in Fds : Close(t, fd) /\ LogsWithin(MaxLog)
    \/ \E t \in Threads, fd \in Fds : Fstat(t, fd) /\ LogsWithin(MaxLog)

SpecFd == Init /\ [][NextFd]_vars

\* A host whose threads make the path-keyed calls on every kind of path.
NextPath ==
    \/ \E t \in Threads, path \in Paths, ok \in BOOLEAN :
          Open(t, path, ok) /\ LogsWithin(MaxLog)
    \/ \E t \in Threads, path \in Paths, ok \in BOOLEAN :
          Mkdir(t, path, ok) /\ LogsWithin(MaxLog)
    \/ \E t \in Threads, target \in FdPaths, linkpath \in Paths,
          ok \in BOOLEAN :
          Symlink(t, target, linkpath, ok) /\ LogsWithin(MaxLog)
    \/ \E t \in Threads, op \in StatOps, path \in Paths, ok \in BOOLEAN :
          Stat(t, op, path, ok) /\ LogsWithin(MaxLog)
    \/ \E t \in Threads, op \in LstatOps, path \in Paths, ok \in BOOLEAN :
          Lstat(t, op, path, ok) /\ LogsWithin(MaxLog)

SpecPath == Init /\ [][NextPath]_vars

\* A host whose threads make recorded calls one after the other: opens and
\* mkdirs of an in-scope path, and fstats.
NextOrder ==
    \/ \E t \in Threads, ok \in BOOLEAN :
          Open(t, PathIn, ok) /\ LogsWithin(MaxOrder)
    \/ \E t \in Threads, ok \in BOOLEAN :
          Mkdir(t, PathIn, ok) /\ LogsWithin(MaxOrder)
    \/ \E t \in Threads, fd \in Fds : Fstat(t, fd) /\ LogsWithin(MaxOrder)

SpecOrder == Init /\ [][NextOrder]_vars

\* ------------------------------------------------------- concurrent opens

\* The in-scope path each thread opens: the paths are distinct.
ConcPath(t) == IF t = MainThread THEN PathIn ELSE PathIn2

\* The process is started with standard input open or closed (`<&-`).
InitConc ==
    /\ InitLayer
    /\ \E stdin \in {Stdin, <<>>} :
          fdtab = [fd \in AllFds |-> IF fd = 0 THEN stdin ELSE <<>>]
    /\ nofile = MaxFd + MaxExtra + 1

\* Thread t enters the open shim, which calls the original open; it succeeds.
OpenEnter(t) ==
    /\ Running
    /\ calls[t].pc = "idle"
    /\ FreeFds(World) # {}
    /\ LET o == orig_open(World, t, ConcPath(t), TRUE) IN
       /\ SetWorld(o.w)
       /\ calls' = [calls EXCEPT ![t] = [Idle EXCEPT !.pc = "called",
                                                     !.op = "open",
                                                     !.path = ConcPath(t),
                                                     !.ret = o.ret]]
    /\ UNCHANGED <<last, aside>>

\* Thread t evaluates log_op, the left operand of the condition of open.
OpenLogOp(t) ==
    /\ Running
    /\ calls[t].pc = "called"
    /\ \E env \in Envs :
          LET lo == log_op(World, t, "open", calls[t].path, calls[t].ret, env)
          IN  /\ SetWorld(lo.w)
              /\ calls' = [calls EXCEPT ![t].pc = "logged",
                                        ![t].logged = lo.logged]
    /\ UNCHANGED <<last, aside>>

\* Thread t marks the descriptor under the write lock, if the condition of
\* open holds, and the shim returns.
OpenReturn(t) ==
    /\ Running
    /\ calls[t].pc = "logged"
    /\ registry' = IF open_marks(calls[t].logged, calls[t].ret)
                   THEN registry \cup {calls[t].ret}
                   ELSE registry
    /\ last' = [orig |-> calls[t].ret, ret |-> shim_return(calls[t].ret)]
    /\ calls' = [calls EXCEPT ![t].pc = "returned"]
    /\ UNCHANGED <<fdtab, logFile, dirExists, errno, logs, aborted, nofile>>
    /\ UNCHANGED aside

\* Each thread of the host opens its path once, the steps of the threads
\* interleaved in any way.
NextConc ==
    \/ \E t \in Threads : OpenEnter(t)
    \/ \E t \in Threads : OpenLogOp(t)
    \/ \E t \in Threads : OpenReturn(t)

SpecConc == InitConc /\ [][NextConc]_vars

\* ---------------------------------------------------- the registry lock

\* A mutant of lock_release: the guard is kept.
lock_kept(l, t) == l

\* The guard returned by write() or read() is a temporary of the statement,
\* or of the condition of the `if`, that took it: it is dropped, and the lock
\* released, when the insert, remove or membership test has been evaluated.
lock_release(l, t) ==
    [writer |-> l.writer \ {t}, readers |-> l.readers \ {t}]

\* The process starts with standard input open and room for the descriptors
\* of the host's threads and of their log files.
InitLock ==
    /\ InitLayer
    /\ fdtab = [fd \in AllFds |-> IF fd = 0 THEN Stdin ELSE <<>>]
    /\ nofile = MaxFd + MaxExtra + 1

\* The number of calls thread t has made.
LkCount(t) == calls[t].n

\* The threads make no more than n calls in all.
CallsWithin(n) == calls'["T1"].n + calls'["T2"].n <= n

\* Thread t is in no call and may make another.
MayCall(t) ==
    /\ Running
    /\ calls[t].pc \in {"idle", "returned"}

\* A call of thread t that has just forwarded to the original.
Forwarded(t, op, path, fd, ret, pc) ==
    [pc |-> pc, op |-> op, path |-> path, fd |-> fd, ret |-> ret,
     logged |-> FALSE, n |-> LkCount(t) + 1]

\* Thread t enters the open shim, which calls the original open.
LkOpenEnter(t, ok) ==
    /\ MayCall(t)
    /\ ok => FreeFds(World) # {}
    /\ LET o == orig_open(World, t, ConcPath(t), ok) IN
       /\ SetWorld(o.w)
       /\ calls' = [calls EXCEPT ![t] =
                      Forwarded(t, "open", ConcPath(t), -1, o.ret, "called")]
    /\ UNCHANGED <<last, aside>>

\* Thread t evaluates log_op, the left operand of the condition of open, and
\* then `ret > 0`; if the condition does not hold the shim returns.
LkOpenLogOp(t) ==
    /\ Running
    /\ calls[t].pc = "called"
    /\ \E env \in Envs :
          \E lo \in {log_op(World, t, "open", calls[t].path, calls[t].ret,
                            env)} :
          LET c == calls[t]
              marks == open_marks(lo.logged, c.ret)
          IN  /\ SetWorld(lo.w)
              /\ calls' = [calls EXCEPT
                             ![t].logged = lo.logged,
                             ![t].pc = IF lo.w.aborted THEN "called"
                                       ELSE IF marks THEN "wantW"
                                       ELSE "returned"]
              /\ last' = IF lo.w.aborted \/ marks
                         THEN last
                         ELSE [orig |-> c.ret, ret |-> shim_return(c.ret)]
    /\ UNCHANGED aside

\* Thread t enters the close shim, which calls the original close; if it
\* failed the shim returns.
LkCloseEnter(t, fd) ==
    /\ MayCall(t)
    /\ fd \notin LogFds(World)
    /\ LET o == orig_close(World, t, fd) IN
       /\ SetWorld(o.w)
       /\ calls' = [calls EXCEPT ![t] =
                      Forwarded(t, "close", <<>>, fd, o.ret,
                                IF o.ret = 0 THEN "wantW" ELSE "returned")]
       /\ last' = IF o.ret = 0
                  THEN last
                  ELSE [orig |-> o.ret, ret |-> shim_return(o.ret)]
    /\ UNCHANGED aside

\* Thread t enters an fstat shim, which calls the original fstat.
LkFstatEnter(t, fd) ==
    /\ MayCall(t)
    /\ fd \notin LogFds(World)
    /\ LET o == orig_fstat(World, t, fd) IN
       /\ SetWorld(o.w)
       /\ calls' = [calls EXCEPT ![t] =
                      Forwarded(t, "fstat", <<>>, fd, o.ret, "wantR")]
    /\ UNCHANGED <<last, aside>>

\* write(): thread t takes the lock for writing, once nobody holds it.
LkWrite(t) ==
    /\ Running
    /\ calls[t].pc = "wantW"
    /\ lock = Unlocked
    /\ lock' = [lock EXCEPT !.writer = {t}]
    /\ calls' = [calls EXCEPT ![t].pc = "hasW"]
    /\ UNCHANGED <<registry, fdtab, logFile, dirExists, errno, logs, aborted,
                   last, nofile, now, begunAt, stamps>>

\* read(): thread t takes the lock for reading, once nobody writes.
LkRead(t) ==
    /\ Running
    /\ calls[t].pc = "wantR"
    /\ lock.writer = {}
    /\ lock' = [lock EXCEPT !.readers = @ \cup {t}]
    /\ calls' = [calls EXCEPT ![t].pc = "hasR"]
    /\ UNCHANGED <<registry, fdtab, logFile, dirExists, errno, logs, aborted,
                   last, nofile, now, begunAt, stamps>>

\* open: insert(ret) under the write lock; the shim returns.
LkOpenInsert(t) ==
    /\ Running
    /\ calls[t].pc = "hasW"
    /\ calls[t].op = "open"
    /\ registry' = registry \cup {calls[t].ret}
    /\ lock' = lock_release(lock, t)
    /\ calls' = [calls EXCEPT ![t].pc = "returned"]
    /\ last' = [orig |-> calls[t].ret, ret |-> shim_return(calls[t].ret)]
    /\ UNCHANGED <<fdtab, logFile, dirExists, errno, logs, aborted, nofile,
                   now, begunAt, stamps>>

\* close: remove(&ret) under the write lock; if the key was not there the
\* shim returns.
LkCloseRemove(t) ==
    /\ Running
    /\ calls[t].pc = "hasW"
    /\ calls[t].op = "close"
    /\ LET c == calls[t]
           key == registry_remove_key(c.fd, c.ret)
           records == close_records(registry, key)
       IN  /\ registry' = registry \ {key}
           /\ calls' = [calls EXCEPT
                          ![t].pc = IF records THEN "log" ELSE "returned"]
           /\ last' = IF records
                      THEN last
                      ELSE [orig |-> c.ret, ret |-> shim_return(c.ret)]
    /\ lock' = lock_release(lock, t)
    /\ UNCHANGED <<fdtab, logFile, dirExists, errno, logs, aborted, nofile,
                   now, begunAt, stamps>>

\* fstat: contains(&fd) under the read lock; if the descriptor is not marked
\* the shim returns.
LkFstatTest(t) ==
    /\ Running
    /\ calls[t].pc = "hasR"
    /\ LET c == calls[t]
           records == fstat_records(registry, c.fd)
       IN  /\ calls' = [calls EXCEPT
                          ![t].pc = IF records THEN "log" ELSE "returned"]
           /\ last' = IF records
                      THEN last
                      ELSE [orig |-> c.ret, ret |-> shim_return(c.ret)]
    /\ lock' = lock_release(lock, t)
    /\ UNCHANGED <<registry, fdtab, logFile, dirExists, errno, logs, aborted,
                   nofile, now, begunAt, stamps>>

\* close and fstat: the record is written, and the shim returns.
LkLog(t) ==
    /\ Running
    /\ calls[t].pc = "log"
    /\ \E env \in Envs :
          \E w \in {log(World, t,
                         FdRec(calls[t].op, calls[t].fd,
                               IF calls[t].op = "close" THEN 0
                               ELSE calls[t].ret),
                         env)} :
          LET c == calls[t]
          IN  /\ SetWorld(w)
              /\ calls' = [calls EXCEPT
                             ![t].pc = IF w.aborted THEN "log" ELSE "returned"]
              /\ last' = IF w.aborted
                         THEN last
                         ELSE [orig |-> c.ret, ret |-> shim_return(c.ret)]
    /\ UNCHANGED aside

\* The steps by which thread t goes on in the shim it has entered.
LkContinue(t) ==
    \/ LkOpenLogOp(t)
    \/ LkWrite(t)
    \/ LkRead(t)
    \/ LkOpenInsert(t)
    \/ LkCloseRemove(t)
    \/ LkFstatTest(t)
    \/ LkLog(t)

\* A host whose threads open, close and fstat, MaxCalls times in all, the
\* steps of the threads interleaved in any way.
NextLock ==
    \/ \E t \in Threads, ok \in BOOLEAN :
          LkOpenEnter(t, ok) /\ CallsWithin(MaxCalls)
    \/ \E t \in Threads : LkOpenLogOp(t)
    \/ \E t \in Threads, fd \in Fds :
          LkCloseEnter(t, fd) /\ CallsWithin(MaxCalls)
    \/ \E t \in Threads, fd \in Fds :
          LkFstatEnter(t, fd) /\ CallsWithin(MaxCalls)
    \/ \E t \in Threads : LkWrite(t)
    \/ \E t \in Threads : LkRead(t)
    \/ \E t \in Threads : LkOpenInsert(t)
    \/ \E t \in Threads : LkCloseRemove(t)
    \/ \E t \in Threads : LkFstatTest(t)
    \/ \E t \in Threads : LkLog(t)

\* A thread that is inside a shim and can take a step is scheduled in the end.
SpecLock ==
    InitLock /\ [][NextLock]_vars
        /\ \A t \in Threads : WF_vars(LkContinue(t))

\* A host whose threads open in-scope paths and close, MaxRace times in all,
\* the steps of the threads interleaved in any way.
NextRace ==
    \/ \E t \in Threads : LkOpenEnter(t, TRUE) /\ CallsWithin(MaxRace)
    \/ \E t \in Threads : LkOpenLogOp(t)
    \/ \E t \in Threads, fd \in Fds :
          LkCloseEnter(t, fd) /\ CallsWithin(MaxRace)
    \/ \E t \in Threads : LkWrite(t)
    \/ \E t \in Threads : LkOpenInsert(t)
    \/ \E t \in Threads : LkCloseRemove(t)

SpecRace == InitLock /\ [][NextRace]_vars

\* ------------------------------------------------- threads come and go

\* The close shim entered from the drop of a File of the layer: the original
\* close, then the code block of close.  A record could not be written: the
\* thread's LOG_FILE is being destroyed.
nested_close(w, t, fd) ==
    LET o == orig_close(w, t, fd) IN
    IF o.ret = 0
    THEN LET key == registry_remove_key(fd, o.ret)
             w1 == [o.w EXCEPT !.registry = @ \ {key}]
         IN  IF close_records(o.w.registry, key) THEN panic(w1) ELSE w1
    ELSE o.w

\* Thread t exits: its thread-locals are destroyed, which closes its log
\* file.  A thread started later may be given the same identity; it starts
\* with fresh thread-locals.
ThreadExit(t) ==
    /\ Running
    /\ logFile[t] # {}
    /\ LET fd == CHOOSE x \in logFile[t] : TRUE
           w == nested_close(World, t, fd)
       IN  SetWorld([w EXCEPT !.logFile[t] = {}, !.errno[t] = 0])
    /\ begunAt' = [begunAt EXCEPT ![t] = {}]
    /\ UNCHANGED <<last, calls, now, stamps, lock>>

\* A host whose threads make recorded calls, exit and are replaced.
NextThreads ==
    \/ \E t \in Threads, ok \in BOOLEAN :
          Open(t, PathIn, ok) /\ LogsWithin(MaxOrder)
    \/ \E t \in Threads, ok \in BOOLEAN :
          Mkdir(t, PathIn, ok) /\ LogsWithin(MaxOrder)
    \/ \E t \in Threads : ThreadExit(t)

SpecThreads == Init /\ [][NextThreads]_vars

\* ------------------------------------------------------------- the clock

\* The instants at which the host makes calls, in nanoseconds on the monotonic
\* clock: around the points where the printed nanoseconds gain a digit and
\* where a second is completed.
Instants == {0, 5, 99999999, 100000000, 999999999, 1000000000, 1099999999}

\* Duration::as_secs and Duration::subsec_nanos.
as_secs(d) == d \div 10^9
subsec_nanos(d) == d % 10^9

\* The decimal digits of n, as ASCII codes.
RECURSIVE Digits(_)
Digits(n) ==
    IF n < 10 THEN <<48 + n>> ELSE Digits(n \div 10) \o <<48 + (n % 10)>>

\* {:0w}: the digits ds, with zeros in front while they are fewer than w.
RECURSIVE ZeroPad(_, _)
ZeroPad(ds, w) == IF Len(ds) >= w THEN ds ELSE ZeroPad(<<48>> \o ds, w)

\* "{:05}.{:08}" of the elapsed time d, as ASCII codes.
prefix(d) ==
    ZeroPad(Digits(as_secs(d)), 5) \o <<46>>
        \o ZeroPad(Digits(subsec_nanos(d)), 8)

\* BEGUN_AT.with: the thread's reference instant, read from the clock by the
\* lazy initialiser at the thread's first use.
begun(t) == IF begunAt[t] = {} THEN now ELSE CHOOSE x \in begunAt[t] : TRUE

\* The first statement of log: the time elapsed since the reference instant.
elapsed(t) == now - begun(t)

\* Time passes.
Tick ==
    /\ \E i \in Instants : i > now /\ now' = i
    /\ UNCHANGED <<registry, fdtab, logFile, dirExists, errno, logs, aborted,
                   last, nofile, calls, begunAt, stamps, lock>>

\* Thread t calls mkdir on an in-scope path at the instant now: the call is
\* recorded, and log computes and prints the line's timestamp.
MkdirAt(t, ok) ==
    /\ Running
    /\ LET o == orig_path(World, t, ok)
           w == path_code(o.w, t, "mkdir", PathIn, o.ret, "ok")
       IN  /\ SetWorld(w)
           /\ last' = IF w.aborted
                      THEN last
                      ELSE [orig |-> o.ret, ret |-> shim_return(o.ret)]
    /\ begunAt' = [begunAt EXCEPT ![t] = {begun(t)}]
    /\ stamps' = [stamps EXCEPT ![t] =
                     Append(@, [at |-> now,
                                elapsed |-> elapsed(t),
                                text |-> prefix(elapsed(t))])]
    /\ UNCHANGED <<calls, now, lock>>

StampsWithin(n) == Len(stamps'["T1"]) + Len(stamps'["T2"]) <= n

\* A host whose threads make recorded calls while time passes.
NextClock ==
    \/ Tick
    \/ \E t \in Threads, ok \in BOOLEAN :
          MkdirAt(t, ok) /\ StampsWithin(MaxStamps)

SpecClock == Init /\ [][NextClock]_vars

\* ------------------------------------------------- what the claims speak of

\* path is dir or lies below the directory dir.
UnderDir(path, dir) == path = dir \/ starts_with(path, dir \o <<"/">>)

\* In scope, as the specification defines it: under the watched root /tmp and
\* not under the audit directory /tmp/intercepts.
ClaimInScope(path) == UnderDir(path, Root) /\ ~UnderDir(path, AuditDir)

NoRecords == \A t \in Threads : logs[t] = <<>>

\* Thread t's stream gains exactly the record rec, at its end, and no other
\* stream changes.
AppendsOne(t, rec) == logs' = [logs EXCEPT ![t] = Append(@, rec)]

\* ------------------------------------------------------------------ claims

\* C1: after any sequence of completed open, close and fstat calls, a
\* descriptor is in the registry if and only if it was returned by a
\* successful open on an in-scope path and has not since been passed to a
\* close that succeeded: that is, if and only if it is now open on an in-scope
\* path.
C1_RegistryIsOpenInScope ==
    ~aborted => \A fd \in Fds : fd \in registry <=> ClaimInScope(fdtab[fd])

\* C2: a close of a marked descriptor whose original returns 0 appends exactly
\* one record "close fd -> 0", naming the descriptor the caller passed, to the
\* calling thread's stream, and the descriptor is no longer marked afterwards
\* (so that a second close of it appends nothing).
C2_CloseRecordsAndUnmarks ==
    [][\A t \in Threads, fd \in Fds :
          (/\ Close(t, fd)
           /\ fd \in registry
           /\ orig_close(World, t, fd).ret = 0
           /\ ~aborted')
          => (/\ AppendsOne(t, FdRec("close", fd, 0))
              /\ fd \notin registry')]_vars

\* C3: a close of a descriptor that is not marked appends no record to any
\* stream, whatever the original close returns.
C3_CloseUnmarkedSilent ==
    [][\A t \in Threads, fd \in Fds :
          logs' = logs \/ ~(fd \notin registry /\ Close(t, fd))]_vars

\* C3's case: descriptor 0, never marked, has been closed, the call returned
\* 0, and no stream holds a record.
C3_Witness ==
    /\ fdtab[0] = <<>>
    /\ 0 \notin registry
    /\ last.ret = 0
    /\ ~aborted
    /\ NoRecords

\* C4: a descriptor value that the operating system hands out again, from an
\* open on an out-of-scope path, after its marked predecessor was closed, is
\* not marked after that open, and a following fstat or close of it appends
\* no record.
C4_ReusedValueNotMarked ==
    [][\A t \in Threads, fd \in Fds :
          /\ \A path \in FdPaths :
                (/\ Open(t, path, TRUE)
                 /\ ~ClaimInScope(path)
                 /\ orig_open(World, t, path, TRUE).ret = fd)
                => fd \notin registry'
          /\ (/\ Fstat(t, fd) \/ Close(t, fd)
              /\ fdtab[fd] # <<>>
              /\ ~ClaimInScope(fdtab[fd]))
             => logs' = logs]_vars

\* Thread t's stream gains exactly one record, at its end, of operation op on
\* path with return value ret, and no other stream changes.
AppendsOneFor(t, op, path, ret) ==
    /\ \A u \in Threads \ {t} : logs'[u] = logs[u]
    /\ Len(logs'[t]) = Len(logs[t]) + 1
    /\ SubSeq(logs'[t], 1, Len(logs[t])) = logs[t]
    /\ LET rec == logs'[t][Len(logs'[t])] IN
       rec.op = op /\ rec.path = path /\ rec.ret = ret

\* Thread t makes a path-keyed call of operation op on path, whose original
\* succeeds or fails as ok says.
PathCall(t, op, path, ok) ==
    \/ op = "open" /\ Open(t, path, ok)
    \/ op = "mkdir" /\ Mkdir(t, path, ok)
    \/ op = "symlink" /\ \E target \in FdPaths : Symlink(t, target, path, ok)
    \/ op \in StatOps /\ Stat(t, op, path, ok)
    \/ op \in LstatOps /\ Lstat(t, op, path, ok)

\* What the original of that call does: the state it leaves and its result.
PathCallOrig(t, op, path, ok) ==
    IF op = "open"
    THEN orig_open(World, t, path, ok)
    ELSE orig_path(World, t, ok)

PathCallRet(t, op, path, ok) == PathCallOrig(t, op, path, ok).ret

PathOps == {"open", "mkdir", "symlink"} \cup StatOps \cup LstatOps

\* C5: every completed open, mkdir, symlink, stat or lstat on a path under
\* /tmp and not under /tmp/intercepts appends exactly one record, referencing
\* the path and carrying the call's real return value, to the calling
\* thread's stream, whether the original succeeded or failed.
C5_InScopeCallRecordedOnce ==
    [][\A t \in Threads, op \in PathOps, path \in Paths, ok \in BOOLEAN :
          (/\ ClaimInScope(path)
           /\ PathCall(t, op, path, ok)
           /\ ~aborted')
          => AppendsOneFor(t, op, path, PathCallRet(t, op, path, ok))]_vars

\* C6: no open, mkdir, symlink, stat or lstat on a path that is not under
\* /tmp, or that is under /tmp/intercepts, appends a record to any stream or
\* marks a descriptor.
C6_OutOfScopeCallSilent ==
    [][\A t \in Threads, op \in PathOps, path \in Paths, ok \in BOOLEAN :
          (~ClaimInScope(path) /\ PathCall(t, op, path, ok))
          => (logs' = logs /\ registry' = registry)]_vars

\* The descriptor table without the descriptors of the layer's log files: the
\* host's own descriptors.
HostTab(w) ==
    [fd \in AllFds |-> IF fd \in LogFds(w) THEN <<>> ELSE w.fdtab[fd]]

\* The state of a process that made the same calls without the layer.
Bare(w) == [w EXCEPT !.fdtab = HostTab(w)]

\* C7 as amended: every intercepted call that returns, in scope or not and
\* recorded or not, returns exactly the value that its invocation of the
\* original returned.
C7_ReturnsOriginalValue == last.ret = last.orig

\* C7's case: an open that was recorded has returned a descriptor.
C7_Witness == last.ret > 0 /\ ~aborted /\ ~NoRecords

\* C7 as stated: in addition, the host sees the return values it would see
\* without the layer: an open returns the descriptor the original returns in a
\* process that holds no log file.
C7_IndistinguishableReturns ==
    [][\A t \in Threads, path \in FdPaths :
          (Open(t, path, TRUE) /\ ~aborted')
          => (/\ last'.ret = last'.orig
              /\ last'.ret = orig_open(Bare(World), t, path, TRUE).ret)]_vars

\* C8: errno of the calling thread, as the host sees it after a shim returns,
\* is the value the original call left behind: the scope check, the creation
\* of the sink and the write of the record leave it unchanged.
C8_ErrnoAsOriginalLeftIt ==
    [][\A t \in Threads :
          /\ \A op \in PathOps, path \in FdPaths, ok \in BOOLEAN :
                (PathCall(t, op, path, ok) /\ ~aborted')
                => errno'[t] = PathCallOrig(t, op, path, ok).w.errno[t]
          /\ \A fd \in Fds :
                (Close(t, fd) /\ ~aborted')
                => errno'[t] = orig_close(World, t, fd).w.errno[t]
          /\ \A fd \in Fds :
                (Fstat(t, fd) /\ ~aborted')
                => errno'[t] = orig_fstat(World, t, fd).w.errno[t]]_vars

\* C9: when the threads concurrently open distinct in-scope paths and every
\* open succeeds, then under every interleaving, once the calls have returned,
\* each thread's stream holds exactly one record, the open record of its call
\* with the descriptor it returned, and every returned descriptor is marked.
C9_ConcurrentOpensRecordedAndMarked ==
    (\A t \in Threads : calls[t].pc = "returned")
    => \A t \in Threads :
          /\ Len(logs[t]) = 1
          /\ logs[t][1].op = "open"
          /\ logs[t][1].path = calls[t].path
          /\ logs[t][1].ret = calls[t].ret
          /\ calls[t].ret \in registry

\* C10: within one thread's stream the records appear in the order in which
\* the thread's recorded calls completed: a call leaves the records of the
\* calls completed before it where they are and puts its own, if it writes
\* one, after them.
C10_RecordsInCallOrder ==
    [][\A t \in Threads :
          /\ Len(logs'[t]) \in {Len(logs[t]), Len(logs[t]) + 1}
          /\ SubSeq(logs'[t], 1, Len(logs[t])) = logs[t]]_vars

\* C10's case: a thread has completed two recorded calls, an open and then an
\* fstat of the descriptor it returned.
C10_Witness ==
    \E t \in Threads :
        /\ Len(logs[t]) = 2
        /\ logs[t][1].op = "open"
        /\ logs[t][2].op = "fstat"
        /\ logs[t][2].fd = logs[t][1].ret

\* C11: there is one process-wide reference instant for the timestamps: two
\* lines written at the same instant, by whichever threads, carry the same
\* relative timestamp, whenever each thread made its first recorded call.
C11_OneReferenceInstant ==
    \A t \in Threads, u \in Threads :
        \A i \in DOMAIN stamps[t], j \in DOMAIN stamps[u] :
            stamps[t][i].at = stamps[u][j].at
            => stamps[t][i].text = stamps[u][j].text

\* C12: a record, once appended to a destination, is never modified or
\* removed: whatever calls, thread exits and thread starts follow (a later
\* thread with the identity of an exited one included), each destination
\* keeps the records it held, unchanged and in place.
C12_RecordsAreKept ==
    [][\A t \in Threads :
          /\ Len(logs'[t]) >= Len(logs[t])
          /\ SubSeq(logs'[t], 1, Len(logs[t])) = logs[t]]_vars

\* What log does to a record of thread t under the environment env.
SinkOutcome(t, env) == log(World, t, FdRec("fstat", 0, 0), env)

\* C13: when the creation of the audit directory fails for another reason
\* than already-exists, or the creation of the thread's file fails, or the
\* write of a record fails, the process aborts: no recorded call returns
\* without its record appended.  Already-exists is taken as success and the
\* record is written.
C13_SinkFailureAborts ==
    [][/\ \A t \in Threads, ok \in BOOLEAN :
             /\ \/ aborted'
                \/ AppendsOneFor(t, "open", PathIn,
                                 orig_open(World, t, PathIn, ok).ret)
                \/ ~Open(t, PathIn, ok)
             /\ \/ aborted'
                \/ AppendsOneFor(t, "mkdir", PathIn,
                                 orig_path(World, t, ok).ret)
                \/ ~Mkdir(t, PathIn, ok)
       /\ \A t \in Threads :
             /\ SinkOutcome(t, "write_fails").aborted
             /\ logFile[t] = {} => SinkOutcome(t, "create_fails").aborted
             /\ (logFile[t] = {} /\ ~dirExists)
                => SinkOutcome(t, "mkdir_fails").aborted
             /\ (logFile[t] = {} /\ dirExists /\ FreeFds(World) # {})
                => (/\ ~SinkOutcome(t, "ok").aborted
                    /\ SinkOutcome(t, "ok").logs[t]
                          = <<FdRec("fstat", 0, 0)>>)]_vars

\* C13's case: the write of a thread's first record failed and the process
\* was killed with the record in no stream.
C13_Witness ==
    /\ aborted
    /\ \E t \in Threads : errno[t] = Errno.ENOSPC /\ logs[t] = <<>>

\* C14: a failing original open, mkdir, symlink, stat or lstat on an in-scope
\* path is still recorded, in one record with the failing return value and
\* the error-state code the original left, and leaves the registry unchanged;
\* a failing original close leaves the registry unchanged and writes no
\* record; the registry changes only in a call whose original succeeded.
C14_FailuresRecordedRegistryKept ==
    [][/\ \A t \in Threads, op \in PathOps, path \in Paths :
             (/\ ClaimInScope(path)
              /\ PathCall(t, op, path, FALSE)
              /\ ~aborted')
             => (/\ AppendsOneFor(t, op, path,
                                  PathCallRet(t, op, path, FALSE))
                 /\ logs'[t][Len(logs'[t])].errno
                       = PathCallOrig(t, op, path, FALSE).w.errno[t]
                 /\ registry' = registry)
       /\ \A t \in Threads, fd \in Fds :
             (Close(t, fd) /\ orig_close(World, t, fd).ret # 0)
             => (registry' = registry /\ logs' = logs)
       /\ (registry' # registry /\ ~aborted') => last'.orig >= 0]_vars

\* What an fstat of fd by thread t that returns leaves: the registry as it
\* was, and one record more, with subject fd and no errno clause, in t's
\* stream if fd is marked, no record more if it is not.
FstatOutcome(t, fd) ==
    /\ registry' = registry
    /\ IF fd \in registry
       THEN AppendsOne(t, FdRec("fstat", fd, orig_fstat(World, t, fd).ret))
       ELSE logs' = logs

\* C15: an fstat (fstat, __fxstat and the 64-bit variants) on a descriptor
\* appends exactly one record, with the descriptor as subject and without an
\* errno clause, if the descriptor is marked at the time of the call, appends
\* nothing if it is not, and leaves the registry unchanged in both cases.
C15_FstatRecordsMarkedOnly ==
    [][\A t \in Threads, fd \in Fds :
          aborted' \/ FstatOutcome(t, fd) \/ ~Fstat(t, fd)]_vars

\* C15's case: an fstat of a marked descriptor has been recorded, without an
\* errno clause, and the descriptor is still marked.
C15_Witness ==
    \E t \in Threads :
        /\ Len(logs[t]) >= 1
        /\ logs[t][Len(logs[t])].op = "fstat"
        /\ ~logs[t][Len(logs[t])].errnoClause
        /\ logs[t][Len(logs[t])].fd \in registry

\* C16: the creation of a thread's sink, at the first record the thread
\* emits, passes back through the mkdir and open shims; those nested calls
\* append no record, do not re-enter the creation and do not mark the log
\* file's descriptor, and the logging call ends with exactly the one intended
\* record appended.
C16_SinkCreationNotRecorded ==
    [][\A t \in Threads :
          /\ (logFile[t] = {} /\ FreeFds(World) # {})
             => (/\ ~SinkOutcome(t, "ok").aborted
                 /\ SinkOutcome(t, "ok").logs
                       = [logs EXCEPT ![t] = <<FdRec("fstat", 0, 0)>>]
                 /\ SinkOutcome(t, "ok").registry = registry)
          /\ (logFile[t] = {} /\ logFile'[t] # {} /\ ~aborted')
             => (/\ Len(logs'[t]) = 1
                 /\ \A u \in Threads \ {t} : logs'[u] = logs[u]
                 /\ logFile'[t] \cap (registry' \ registry) = {})]_vars

\* C16's case: a thread's sink has been created by its first recorded call,
\* which returned: its stream holds the one record and its log file's
\* descriptor is not marked.
C16_Witness ==
    /\ ~aborted
    /\ \E t \in Threads :
          /\ logFile[t] # {}
          /\ Len(logs[t]) = 1
          /\ logFile[t] \cap registry = {}

\* Thread t is inside a shim.
InCall(t) == calls[t].pc \notin {"idle", "returned"}

\* C17: no registry operation blocks for ever: with the threads calling open,
\* close and fstat concurrently, under fair scheduling every call whose
\* original returned returns too (unless a failure of the sink kills the
\* process), and the lock is held only for the single insert, remove or
\* membership test, never across a forwarded call, a creation of the sink or
\* a write of a record.
C17_NoCallBlocksForEver ==
    /\ [](\A t \in Threads :
            t \in lock.writer \cup lock.readers
            => calls[t].pc \in {"hasW", "hasR"})
    /\ \A t \in Threads :
          InCall(t) ~> (calls[t].pc = "returned" \/ aborted)

\* C17 as stated, without the exception: every call whose original returned
\* returns too.  A call whose record cannot be written never returns: the
\* panic in the sink ends the process.
C17_EveryCallReturns ==
    \A t \in Threads : InCall(t) ~> calls[t].pc = "returned"

\* C17's case: both threads have gone through the lock and returned: one
\* from an open that marked its descriptor, the other from an fstat of that
\* descriptor, which it recorded.
C17_Witness ==
    /\ ~aborted
    /\ lock = Unlocked
    /\ \E t \in Threads, u \in Threads :
          /\ calls[t].pc = "returned" /\ calls[t].op = "open"
          /\ calls[t].ret \in registry
          /\ calls[u].pc = "returned" /\ calls[u].op = "fstat"
          /\ calls[u].fd = calls[t].ret
          /\ Len(logs[u]) = 1

\* C18: the errno written in the record of a path-keyed call is the thread's
\* error state as the original call left it on returning: neither the scope
\* check nor the creation of the sink, which come between that return and the
\* write, changes the value recorded.
C18_RecordedErrnoIsTheOriginals ==
    [][\A t \in Threads :
          \/ logs'[t] = logs[t]
          \/ logs'[t] = <<>>
          \/ LET rec == logs'[t][Len(logs'[t])] IN
             \/ ~rec.errnoClause
             \/ \E ok \in BOOLEAN :
                   LET o == PathCallOrig(t, rec.op, rec.path, ok) IN
                   o.ret = rec.ret /\ rec.errno = o.w.errno[t]]_vars

\* C18's case: a thread's failing call was recorded with the errno of the
\* original, ENOENT, by a thread whose sink was created during the call: the
\* directory was there already, and the thread's error state now is EEXIST.
C18_Witness ==
    /\ ~aborted
    /\ \E t \in Threads :
          /\ Len(logs[t]) = 1
          /\ logs[t][1].errnoClause
          /\ logs[t][1].ret = -1
          /\ logs[t][1].errno = Errno.ENOENT
          /\ errno[t] = Errno.EEXIST

\* The text a comes before the text b in the order of their characters, a
\* proper prefix before the texts it begins.
RECURSIVE LexLess(_, _)
LexLess(a, b) ==
    IF b = <<>> THEN FALSE
    ELSE IF a = <<>> THEN TRUE
    ELSE IF Head(a) # Head(b) THEN Head(a) < Head(b)
    ELSE LexLess(Tail(a), Tail(b))

\* C19: within one thread's stream the timestamp prefixes of successive
\* records never decrease: of two records of a thread, the later one, whose
\* elapsed time is not the smaller, has a printed prefix that does not come
\* before the earlier one's.
C19_PrefixesNeverDecrease ==
    \A t \in Threads :
        \A i \in DOMAIN stamps[t], j \in DOMAIN stamps[t] :
            (i < j /\ stamps[t][i].elapsed <= stamps[t][j].elapsed)
            => ~LexLess(stamps[t][j].text, stamps[t][i].text)

\* Thread b has returned from an in-scope open that was given descriptor fd
\* and marked it, and still holds it.
HoldsMarked(b, fd) ==
    /\ calls[b].pc = "returned"
    /\ calls[b].op = "open"
    /\ calls[b].ret = fd
    /\ fdtab[fd] = ConcPath(b)
    /\ fd \in registry

\* C20: when thread A's original close(D) has succeeded and, before A updates
\* the registry, thread B's in-scope open has returned the reused value D and
\* marked it, A's late update of the registry leaves D marked: D is marked
\* once both calls have returned.
C20_LateCloseKeepsReusedMarked ==
    [][\A a \in Threads, b \in Threads :
          \/ a = b
          \/ calls[a].fd \in registry'
          \/ ~HoldsMarked(b, calls[a].fd)
          \/ ~(calls[a].ret = 0 /\ LkCloseRemove(a))]_vars

\* C20's case: A opened D, which was marked and recorded, and closed it; B's
\* open was given D and marked it before A's update of the registry, which
\* was the last step; both calls have returned and D is marked.
C20_Witness ==
    /\ ~aborted
    /\ lock = Unlocked
    /\ last.orig = 0
    /\ \E a \in Threads, b \in Threads :
          /\ a # b
          /\ calls[a].pc = "returned"
          /\ calls[a].op = "close"
          /\ calls[a].ret = 0
          /\ calls[a].fd > 0
          /\ Len(logs[a]) = 1
          /\ logs[a][1].op = "open"
          /\ logs[a][1].ret = calls[a].fd
          /\ HoldsMarked(b, calls[a].fd)

====
